---------------------------- MODULE Spec2Model ----------------------------
(***************************************************************************)
(* FlatBufferBuilder pools of flatbuf/src/pool:                            *)
(*   v1.rs  BuilderPool            a Mutex<Vec<Builder>> behind a Lazy      *)
(*   v3.rs  FlatBufferBuilderPool  a Lazy<ArrayQueue<GlobalBuilder>>        *)
(*   v3.rs  LocalFlatBufferBuilderPool  an Arc<ArrayQueue<LocalBuilder>>    *)
(* Threads check builders out (get), write through the handle and release  *)
(* the handle (Drop).  The three pools share no state besides the v3       *)
(* configuration statics, so a behaviour exercises one of them, chosen by  *)
(* `variant` in the initial state.                                         *)
(***************************************************************************)
EXTENDS Integers, Sequences, FiniteSets, TLC

\* ------------------------------------------------------------------ bounds
\* Number of FlatBufferBuilder instances a behaviour may allocate.
MaxBuilders == 3
\* Largest pool size given to a v3 size setter.
MaxSize == 2
\* Largest number of bytes written into one builder.
MaxContent == 1
\* Number of nested Drop frames the stack holds before it is exhausted.
MaxDepth == 2
\* v1.rs INIT_POOL_SIZE (32) and MAX_POOL_SIZE (1_024), scaled down.
V1_INIT_POOL_SIZE == 1
V1_MAX_POOL_SIZE == 1

\* --------------------------------------------------------------- constants
\* v1.rs BUFFER_CAPACITY
V1_BUFFER_CAPACITY == 64
\* v3.rs initial values of the statics INIT_POOL_SIZE, MAX_POOL_SIZE, BUFFER_CAPACITY
DEFAULT_INIT_POOL_SIZE == 32
DEFAULT_MAX_POOL_SIZE == 1024
DEFAULT_BUFFER_CAPACITY == 64

\* The threads that use a pool.
Threads == {1, 2}
Builders == 1..MaxBuilders
\* Local pools (LocalFlatBufferBuilderPool values) a behaviour may build.
Pools == {1, 2}
NoPool == 0
\* issuer of a handle that no pool issued: it was made by Default::default().
ByDefault == -1
\* Option::None for a builder, and "no thread" for the mutex.
None == 0
Variants == {"v1", "global", "local"}

VARIABLES
    variant,          \* which pool this behaviour exercises
    INIT_POOL_SIZE,   \* v3.rs static mut
    MAX_POOL_SIZE,    \* v3.rs static mut
    BUFFER_CAPACITY,  \* v3.rs static mut
    factory,          \* FlatBufferBuilderPool {init, max, capacity}
    nextId,           \* next builder instance to allocate
    used,             \* builder -> bytes of logical content
    bufcap,           \* builder -> capacity it was allocated with
    freed,            \* builder -> number of times its storage was freed
    written,          \* history: builders ever written through a handle
    rejected,         \* `builder` of the Drop of a wrapper that a pre-populating push rejected
    pc,               \* thread -> position
    hnd,              \* thread -> the wrapper it owns
    taken,            \* thread -> `builder`, the local of Drop::drop
    depth,            \* thread -> nesting of Drop::drop inside the release
    arcs,             \* thread -> upgraded Arcs its Drop frames hold
    issuer,           \* history: thread -> the pool whose get() issued its handle, or ByDefault
    loc,              \* thread -> locals of the configuration call it is in
    v1init,           \* v1 POOL Lazy is initialised
    v1pool,           \* v1 POOL Vec<Builder>
    v1lock,           \* v1 POOL mutex holder
    ginit,            \* v3 POOL Lazy is initialised
    gqueue,           \* v3 POOL ArrayQueue contents
    gcap,             \* v3 POOL ArrayQueue capacity
    gpoison,          \* v3 POOL Lazy is poisoned: its initialiser panicked
    gfirst,           \* history: the statics as they were at the first use of v3 POOL
    lstate,           \* pool -> "unbuilt" | "alive" | "draining" | "drained" | "dead"
    lqueue,           \* pool -> ArrayQueue contents
    lcap,             \* pool -> ArrayQueue capacity
    lcapacity,        \* pool -> LocalFlatBufferBuilderPool.capacity
    drainSet          \* history: pool -> builders idle when its teardown began

cfgVars == <<variant, INIT_POOL_SIZE, MAX_POOL_SIZE, BUFFER_CAPACITY, factory>>
bldVars == <<nextId, used, bufcap, freed, written, rejected>>
hndVars == <<hnd, taken, depth, arcs, issuer>>
thrVars == <<pc, hndVars, loc>>
v1Vars == <<v1init, v1pool, v1lock>>
gVars == <<ginit, gqueue, gcap, gpoison, gfirst>>
lVars == <<lstate, lqueue, lcap, lcapacity, drainSet>>
vars == <<cfgVars, bldVars, thrVars, v1Vars, gVars, lVars>>

\* ------------------------------------------------------ what a program uses
\* The program uses the global lock-free pool / local pools ("both": a program
\* that uses the two kinds side by side).
UsesGlobal == variant \in {"global", "both"}
UsesLocal == variant \in {"local", "both"}

\* ----------------------------------------------------------------- helpers
\* A thread that owns no wrapper.
NoHandle == [pool |-> NoPool, drained |-> FALSE, inner |-> None]

\* GlobalBuilder(Some(b)) / Builder(Some(b)): a wrapper with the Option only.
GlobalBuilderNew(b) == [pool |-> NoPool, drained |-> FALSE, inner |-> b]

\* A LocalBuilder::new that refers every wrapper to the queue of the first pool.
LocalBuilderNewFirstPool(p, b) ==
    [pool |-> CHOOSE q \in Pools : \A r \in Pools : q <= r, drained |-> FALSE, inner |-> b]

\* A LocalBuilder::new that starts the wrapper as drained.
LocalBuilderNewDrained(p, b) == [pool |-> p, drained |-> TRUE, inner |-> b]

\* LocalBuilder::new(pool, builder)
LocalBuilderNew(p, b) == [pool |-> p, drained |-> FALSE, inner |-> b]


\* No configuration recorded: v3 POOL has not been used yet.
NoConfig == [init |-> 0, max |-> 0, capacity |-> 0]

\* impl Default for FlatBufferBuilderPool: a factory reads the three statics.
FactoryDefault(i, m, c) == [init |-> i, max |-> m, capacity |-> c]

\* The builder instances first .. first+n-1, allocated by a `for _ in 0..n` loop.
FreshIds(first, n) == [i \in 1..n |-> first + i - 1]

SeqRange(q) == {q[i] : i \in 1..Len(q)}

\* ArrayQueue::push on a queue of capacity cap succeeds iff it is not full.
QueueHasRoom(q, cap) == Len(q) < cap

\* A queue created one slot larger than the configured maximum.
QueueCapacityOffByOne(max) == max + 1
\* `ArrayQueue::new(max)`: the capacity the pool's queue is created with.
QueueCapacity(max) == max

\* A pop that hands out the head and leaves it in the queue.
QueueKeepsHead(q) == q
\* What `pop()` leaves in the queue: the head is moved out to the caller.
QueueAfterPop(q) == Tail(q)

\* A reset that leaves the content in place.
ResetKeeps(n) == n
\* FlatBufferBuilder::reset(): the logical content becomes empty.
Reset(n) == 0

\* Arc::strong_count of a local pool's queue: the pool value's `inner` plus the
\* Arcs that Drop frames obtained from Weak::upgrade.
RECURSIVE SumArcs(_, _)
SumArcs(S, p) ==
    IF S = {} THEN 0
    ELSE LET t == CHOOSE x \in S : TRUE
         IN  (IF hnd[t].pool = p THEN arcs[t] ELSE 0) + SumArcs(S \ {t}, p)

PoolValueExists(p) == lstate[p] \in {"alive", "draining", "drained"}

\* Wrappers that hold an Arc instead of a Weak: every idle wrapper keeps its queue alive.
StrongCountOwningWrappers(p) ==
    (IF PoolValueExists(p) THEN 1 ELSE 0) + SumArcs(Threads, p) + Len(lqueue[p])
\* Handles that hold an Arc instead of a Weak: every outstanding handle keeps its
\* queue alive.
StrongCountOwningHandles(p) ==
    (IF PoolValueExists(p) THEN 1 ELSE 0) + SumArcs(Threads, p)
        + Cardinality({t \in Threads : hnd[t].pool = p /\ pc[t] \in {"out", "l_upgrade"}})
StrongCount(p) == (IF PoolValueExists(p) THEN 1 ELSE 0) + SumArcs(Threads, p)

\* A thread that exhausts its stack aborts the process: every thread stops.
StackOverflow == [t \in Threads |-> "overflow"]

Aborted == \E t \in Threads : pc[t] = "overflow"

\* A thread is inside the Lazy::new closure of v3 POOL and will never leave it.
GHung == \E t \in Threads : pc[t] = "g_hang"

\* The positions of a thread that runs the Lazy::new closure of v3 POOL.
ForcePcs == {"g_force_max", "g_fill"}

\* A thread is running the Lazy::new closure of v3 POOL.
GForcing == \E t \in Threads : pc[t] \in ForcePcs

\* The builders the closure under way has still to allocate: its loop runs
\* over the initial size it loaded.
GPending ==
    IF GForcing
    THEN LET t == CHOOSE u \in Threads : pc[u] \in ForcePcs
         IN  IF loc[t].size > Len(gqueue) THEN loc[t].size - Len(gqueue) ELSE 0
    ELSE 0

\* A thread that is in no configuration call.
NoLocals == [size |-> 0, seen |-> 0]

\* Nothing has run yet: no builder allocated, every thread between operations, the
\* lazy statics not forced, no local pool built.
Fresh ==
    /\ nextId = 1
    /\ used = [b \in Builders |-> 0]
    /\ bufcap = [b \in Builders |-> 0]
    /\ freed = [b \in Builders |-> 0]
    /\ written = {}
    /\ rejected = None
    /\ pc = [t \in Threads |-> "idle"]
    /\ hnd = [t \in Threads |-> NoHandle]
    /\ taken = [t \in Threads |-> None]
    /\ depth = [t \in Threads |-> 0]
    /\ arcs = [t \in Threads |-> 0]
    /\ issuer = [t \in Threads |-> NoPool]
    /\ loc = [t \in Threads |-> NoLocals]
    /\ v1init = FALSE
    /\ v1pool = <<>>
    /\ v1lock = None
    /\ ginit = FALSE
    /\ gqueue = <<>>
    /\ gcap = 0
    /\ gpoison = FALSE
    /\ gfirst = NoConfig
    /\ lstate = [p \in Pools |-> "unbuilt"]
    /\ lqueue = [p \in Pools |-> <<>>]
    /\ lcap = [p \in Pools |-> 0]
    /\ lcapacity = [p \in Pools |-> 0]
    /\ drainSet = [p \in Pools |-> {}]

\* ------------------------------------------------------------------- Init
Init ==
    /\ variant \in Variants
    /\ IF variant = "v1"
       THEN /\ INIT_POOL_SIZE = DEFAULT_INIT_POOL_SIZE
            /\ MAX_POOL_SIZE = DEFAULT_MAX_POOL_SIZE
       ELSE /\ INIT_POOL_SIZE \in 0..MaxSize
            /\ MAX_POOL_SIZE \in 1..MaxSize
            /\ INIT_POOL_SIZE <= MAX_POOL_SIZE
    /\ BUFFER_CAPACITY = DEFAULT_BUFFER_CAPACITY
    /\ factory = FactoryDefault(INIT_POOL_SIZE, MAX_POOL_SIZE, BUFFER_CAPACITY)
    /\ Fresh


\* ------------------------------------------------- the handle, in use
\* DerefMut: the caller writes one more byte through the handle.
Write(t) ==
    /\ pc[t] = "out"
    /\ used[hnd[t].inner] < MaxContent
    /\ used' = [used EXCEPT ![hnd[t].inner] = @ + 1]
    /\ written' = written \cup {hnd[t].inner}
    /\ UNCHANGED <<cfgVars, nextId, bufcap, freed, thrVars, v1Vars, gVars, lVars>>
    /\ UNCHANGED rejected

\* ------------------------------------------------------ v1: locked pool
\* Lazy::new closure of v1 POOL, run by the first access: the POOL.lock() of a
\* get() or of the release of a handle made by Builder::default().
V1Force(t) ==
    /\ variant = "v1"
    /\ pc[t] \in {"idle", "v1_lock"}
    /\ ~v1init
    /\ nextId + V1_INIT_POOL_SIZE - 1 <= MaxBuilders
    /\ v1init' = TRUE
    /\ v1pool' = FreshIds(nextId, V1_INIT_POOL_SIZE)
    /\ nextId' = nextId + V1_INIT_POOL_SIZE
    /\ bufcap' = [b \in Builders |->
                    IF b \in SeqRange(FreshIds(nextId, V1_INIT_POOL_SIZE))
                    THEN V1_BUFFER_CAPACITY ELSE bufcap[b]]
    /\ UNCHANGED <<cfgVars, used, freed, written, thrVars, v1lock, gVars, lVars>>
    /\ UNCHANGED rejected

\* impl Default for Builder (public; also what std::mem::take leaves behind): a
\* handle on a freshly allocated builder, made without touching POOL.  (The
\* guard on nextId keeps the builders that the first access and the get()s
\* under way may still allocate within MaxBuilders.)
V1Default(t) ==
    /\ variant = "v1"
    /\ pc[t] = "idle"
    /\ nextId + (IF v1init THEN 0 ELSE V1_INIT_POOL_SIZE)
              + Cardinality({u \in Threads : pc[u] = "v1_get"}) <= MaxBuilders
    /\ hnd' = [hnd EXCEPT ![t] = GlobalBuilderNew(nextId)]
    /\ nextId' = nextId + 1
    /\ bufcap' = [bufcap EXCEPT ![nextId] = V1_BUFFER_CAPACITY]
    /\ issuer' = [issuer EXCEPT ![t] = ByDefault]
    /\ pc' = [pc EXCEPT ![t] = "out"]
    /\ UNCHANGED <<cfgVars, used, freed, written, taken, depth, arcs, v1Vars, gVars, lVars>>
    /\ UNCHANGED rejected
    /\ UNCHANGED loc

\* BuilderPool::get, `let mut pool = POOL.lock();`
V1GetLock(t) ==
    /\ variant = "v1"
    /\ pc[t] = "idle"
    /\ v1init
    /\ v1lock = None
    /\ v1pool # <<>> \/ nextId <= MaxBuilders
    /\ v1lock' = t
    /\ pc' = [pc EXCEPT ![t] = "v1_get"]
    /\ UNCHANGED <<cfgVars, bldVars, hnd, taken, depth, arcs, v1init, v1pool, gVars, lVars>>
    /\ UNCHANGED issuer
    /\ UNCHANGED loc

\* A get that ignores the idle builders and always allocates.
V1GetAlwaysNew(t) ==
    /\ pc[t] = "v1_get"
    /\ nextId <= MaxBuilders
    /\ hnd' = [hnd EXCEPT ![t] = GlobalBuilderNew(nextId)]
    /\ nextId' = nextId + 1
    /\ bufcap' = [bufcap EXCEPT ![nextId] = V1_BUFFER_CAPACITY]
    /\ v1lock' = None
    /\ pc' = [pc EXCEPT ![t] = "out"]
    /\ UNCHANGED <<cfgVars, used, freed, written, taken, depth, arcs, v1init, v1pool,
                   gVars, lVars>>
    /\ issuer' = [issuer EXCEPT ![t] = NoPool]
    /\ UNCHANGED rejected
    /\ UNCHANGED loc

\* BuilderPool::get, `match pool.pop()`; the guard is dropped on return.
V1GetPop(t) ==
    /\ pc[t] = "v1_get"
    /\ IF v1pool # <<>>
       THEN /\ hnd' = [hnd EXCEPT ![t] = GlobalBuilderNew(v1pool[Len(v1pool)])]
            /\ v1pool' = SubSeq(v1pool, 1, Len(v1pool) - 1)
            /\ UNCHANGED <<nextId, bufcap>>
       ELSE /\ hnd' = [hnd EXCEPT ![t] = GlobalBuilderNew(nextId)]
            /\ nextId' = nextId + 1
            /\ bufcap' = [bufcap EXCEPT ![nextId] = V1_BUFFER_CAPACITY]
            /\ UNCHANGED v1pool
    /\ v1lock' = None
    /\ pc' = [pc EXCEPT ![t] = "out"]
    /\ UNCHANGED <<cfgVars, used, freed, written, taken, depth, arcs, v1init, gVars, lVars>>
    /\ issuer' = [issuer EXCEPT ![t] = NoPool]
    /\ UNCHANGED rejected
    /\ UNCHANGED loc

\* A release that takes the builder and forgets to reset it.
V1DropNoReset(t) ==
    /\ variant = "v1"
    /\ pc[t] = "out"
    /\ taken' = [taken EXCEPT ![t] = hnd[t].inner]
    /\ hnd' = [hnd EXCEPT ![t].inner = None]
    /\ pc' = [pc EXCEPT ![t] = "v1_lock"]
    /\ UNCHANGED <<cfgVars, bldVars, depth, arcs, v1Vars, gVars, lVars>>
    /\ UNCHANGED issuer
    /\ UNCHANGED loc

\* Drop for Builder, `self.0.take()` and `builder.reset()`, outside of the lock.
V1DropReset(t) ==
    /\ variant = "v1"
    /\ pc[t] = "out"
    /\ taken' = [taken EXCEPT ![t] = hnd[t].inner]
    /\ hnd' = [hnd EXCEPT ![t].inner = None]
    /\ used' = [used EXCEPT ![hnd[t].inner] = Reset(@)]
    /\ pc' = [pc EXCEPT ![t] = "v1_lock"]
    /\ UNCHANGED <<cfgVars, nextId, bufcap, freed, written, depth, arcs, v1Vars, gVars, lVars>>
    /\ UNCHANGED issuer
    /\ UNCHANGED rejected
    /\ UNCHANGED loc

\* A lock() that does not wait for the holder: no mutual exclusion.
V1DropLockNoWait(t) ==
    /\ pc[t] = "v1_lock"
    /\ v1init
    /\ v1lock' = t
    /\ pc' = [pc EXCEPT ![t] = "v1_push"]
    /\ UNCHANGED <<cfgVars, bldVars, hnd, taken, depth, arcs, issuer, v1init, v1pool,
                   gVars, lVars>>
    /\ UNCHANGED loc

\* Drop for Builder, `let mut pool = POOL.lock();`
V1DropLock(t) ==
    /\ pc[t] = "v1_lock"
    /\ v1init
    /\ v1lock = None
    /\ v1lock' = t
    /\ pc' = [pc EXCEPT ![t] = "v1_push"]
    /\ UNCHANGED <<cfgVars, bldVars, hnd, taken, depth, arcs, v1init, v1pool, gVars, lVars>>
    /\ UNCHANGED issuer
    /\ UNCHANGED loc

\* A release that, on a full pool, drops the rejected Builder wrapper before the
\* guard: the nested Drop asks for the lock its own thread holds.
V1DropPushDropsUnderLock(t) ==
    /\ pc[t] = "v1_push"
    /\ IF Len(v1pool) < V1_MAX_POOL_SIZE
       THEN /\ v1pool' = Append(v1pool, taken[t])
            /\ v1lock' = None
            /\ taken' = [taken EXCEPT ![t] = None]
            /\ hnd' = [hnd EXCEPT ![t] = NoHandle]
            /\ pc' = [pc EXCEPT ![t] = "idle"]
       ELSE /\ pc' = [pc EXCEPT ![t] = "v1_lock"]
            /\ UNCHANGED <<v1pool, v1lock, taken, hnd>>
    /\ UNCHANGED <<cfgVars, bldVars, depth, arcs, issuer, v1init, gVars, lVars>>
    /\ UNCHANGED loc

\* Drop for Builder, `if pool.len() < MAX_POOL_SIZE { pool.push(..) }`, then the
\* guard (and a builder that was not pushed) is dropped.
V1DropPush(t) ==
    /\ pc[t] = "v1_push"
    /\ IF Len(v1pool) < V1_MAX_POOL_SIZE
       THEN /\ v1pool' = Append(v1pool, taken[t])
            /\ UNCHANGED freed
       ELSE /\ freed' = [freed EXCEPT ![taken[t]] = @ + 1]
            /\ UNCHANGED v1pool
    /\ v1lock' = None
    /\ taken' = [taken EXCEPT ![t] = None]
    /\ hnd' = [hnd EXCEPT ![t] = NoHandle]
    /\ pc' = [pc EXCEPT ![t] = "idle"]
    /\ UNCHANGED <<cfgVars, nextId, used, bufcap, written, depth, arcs, v1init, gVars, lVars>>
    /\ UNCHANGED issuer
    /\ UNCHANGED rejected
    /\ UNCHANGED loc

\* ------------------------------------------- v3: global lock-free pool
\* Lazy::new closure of v3 POOL, run by the first access: the get() of an idle
\* thread or the POOL.push of a release.  The closure loads INIT_POOL_SIZE and
\* MAX_POOL_SIZE one after the other and BUFFER_CAPACITY once for every
\* builder, without synchronisation: each load is a step of its own, next to
\* the setters of other threads.  The queue under construction is gqueue with
\* ginit still FALSE; until the closure returns every other access to POOL
\* waits.

\* `let (init, max) = ..`, the load of INIT_POOL_SIZE.
GForceInit(t) ==
    /\ UsesGlobal
    /\ pc[t] \in {"idle", "g_push"}
    /\ ~ginit
    /\ ~gpoison
    /\ ~GHung
    /\ ~GForcing
    /\ nextId + INIT_POOL_SIZE - 1 <= MaxBuilders
    /\ loc' = [loc EXCEPT ![t] = [size |-> INIT_POOL_SIZE, seen |-> 0]]
    /\ pc' = [pc EXCEPT ![t] = "g_force_max"]
    /\ UNCHANGED <<cfgVars, bldVars, hndVars, v1Vars, gVars, lVars>>

\* The load of MAX_POOL_SIZE and `ArrayQueue::new(max)`.
GForceMax(t) ==
    /\ pc[t] = "g_force_max"
    /\ MAX_POOL_SIZE > 0
    /\ loc' = [loc EXCEPT ![t].seen = MAX_POOL_SIZE]
    /\ gcap' = QueueCapacity(MAX_POOL_SIZE)
    /\ pc' = [pc EXCEPT ![t] = "g_fill"]
    /\ UNCHANGED <<cfgVars, bldVars, hndVars, v1Vars, ginit, gqueue, gpoison, gfirst, lVars>>

\* `for _ in 0..init { pool.push(GlobalBuilder::new()).unwrap(); }`, one round
\* whose push is accepted, or the end of the loop and the return of the closure
\* to the access that ran it.
GForceFill(t) ==
    /\ pc[t] = "g_fill"
    /\ IF Len(gqueue) < loc[t].size
       THEN /\ QueueHasRoom(gqueue, gcap)
            /\ nextId <= MaxBuilders
            /\ gqueue' = Append(gqueue, nextId)
            /\ nextId' = nextId + 1
            /\ bufcap' = [bufcap EXCEPT ![nextId] = BUFFER_CAPACITY]
            /\ UNCHANGED <<ginit, gfirst, pc, loc>>
       ELSE /\ ginit' = TRUE
            /\ gfirst' = FactoryDefault(loc[t].size, loc[t].seen, BUFFER_CAPACITY)
            /\ pc' = [pc EXCEPT ![t] = IF taken[t] # None THEN "g_push" ELSE "idle"]
            /\ loc' = [loc EXCEPT ![t] = NoLocals]
            /\ UNCHANGED <<gqueue, nextId, bufcap>>
    /\ UNCHANGED <<cfgVars, used, freed, written, rejected, hndVars, v1Vars, gcap, gpoison, lVars>>

\* static POOL: Lazy::new(|| ..)
GForce(t) ==
    \/ GForceInit(t)
    \/ GForceMax(t)
    \/ GForceFill(t)

\* impl Default for GlobalBuilder (public; also what std::mem::take leaves behind):
\* a handle on a builder freshly allocated with BUFFER_CAPACITY, made without
\* touching POOL.
GDefault(t) ==
    /\ UsesGlobal
    /\ pc[t] = "idle"
    /\ nextId + GPending <= MaxBuilders
    /\ hnd' = [hnd EXCEPT ![t] = GlobalBuilderNew(nextId)]
    /\ nextId' = nextId + 1
    /\ bufcap' = [bufcap EXCEPT ![nextId] = BUFFER_CAPACITY]
    /\ issuer' = [issuer EXCEPT ![t] = ByDefault]
    /\ pc' = [pc EXCEPT ![t] = "out"]
    /\ UNCHANGED <<cfgVars, used, freed, written, taken, depth, arcs, v1Vars, gVars, lVars>>
    /\ UNCHANGED rejected
    /\ UNCHANGED loc

\* A get() that waits while as many handles are outstanding as the queue can hold,
\* as a pool bounding its outstanding handles would.
GGetBounded(t) ==
    /\ UsesGlobal
    /\ pc[t] = "idle"
    /\ ginit
    /\ Cardinality({u \in Threads : pc[u] # "idle"}) < gcap
    /\ IF gqueue # <<>>
       THEN /\ hnd' = [hnd EXCEPT ![t] = GlobalBuilderNew(Head(gqueue))]
            /\ gqueue' = Tail(gqueue)
            /\ UNCHANGED <<nextId, bufcap>>
       ELSE /\ nextId <= MaxBuilders
            /\ hnd' = [hnd EXCEPT ![t] = GlobalBuilderNew(nextId)]
            /\ nextId' = nextId + 1
            /\ bufcap' = [bufcap EXCEPT ![nextId] = BUFFER_CAPACITY]
            /\ UNCHANGED gqueue
    /\ pc' = [pc EXCEPT ![t] = "out"]
    /\ UNCHANGED <<cfgVars, used, freed, written, taken, depth, arcs, v1Vars,
                   ginit, gcap, gpoison, gfirst, lVars>>
    /\ issuer' = [issuer EXCEPT ![t] = NoPool]
    /\ UNCHANGED rejected
    /\ UNCHANGED loc

\* FlatBufferBuilderPool::get
GGet(t) ==
    /\ UsesGlobal
    /\ pc[t] = "idle"
    /\ ginit
    /\ IF gqueue # <<>>
       THEN /\ hnd' = [hnd EXCEPT ![t] = GlobalBuilderNew(Head(gqueue))]
            /\ gqueue' = QueueAfterPop(gqueue)
            /\ UNCHANGED <<nextId, bufcap>>
       ELSE /\ nextId <= MaxBuilders
            /\ hnd' = [hnd EXCEPT ![t] = GlobalBuilderNew(nextId)]
            /\ nextId' = nextId + 1
            /\ bufcap' = [bufcap EXCEPT ![nextId] = BUFFER_CAPACITY]
            /\ UNCHANGED gqueue
    /\ pc' = [pc EXCEPT ![t] = "out"]
    /\ UNCHANGED <<cfgVars, used, freed, written, taken, depth, arcs, v1Vars, ginit, gcap, gpoison, gfirst, lVars>>
    /\ issuer' = [issuer EXCEPT ![t] = NoPool]
    /\ UNCHANGED rejected
    /\ UNCHANGED loc

\* Drop for GlobalBuilder, `self.0.take()` and `builder.reset()`.
GDropReset(t) ==
    /\ UsesGlobal
    /\ pc[t] = "out"
    /\ hnd[t].pool = NoPool
    /\ taken' = [taken EXCEPT ![t] = hnd[t].inner]
    /\ hnd' = [hnd EXCEPT ![t].inner = None]
    /\ used' = [used EXCEPT ![hnd[t].inner] = Reset(@)]
    /\ pc' = [pc EXCEPT ![t] = "g_push"]
    /\ UNCHANGED <<cfgVars, nextId, bufcap, freed, written, depth, arcs, v1Vars, gVars, lVars>>
    /\ UNCHANGED issuer
    /\ UNCHANGED rejected
    /\ UNCHANGED loc

\* Drop for GlobalBuilder, `if let Err(_err) = POOL.push(GlobalBuilder(Some(builder)))`.
\* A rejected push hands the wrapper back in `_err`; dropping `_err` at the end of
\* the block runs Drop for GlobalBuilder on it: take, reset, push again, one stack
\* frame deeper.
GDropPush(t) ==
    /\ pc[t] = "g_push"
    /\ ginit
    /\ IF QueueHasRoom(gqueue, gcap)
       THEN /\ gqueue' = Append(gqueue, taken[t])
            /\ taken' = [taken EXCEPT ![t] = None]
            /\ hnd' = [hnd EXCEPT ![t] = NoHandle]
            /\ depth' = [depth EXCEPT ![t] = 0]
            /\ pc' = [pc EXCEPT ![t] = "idle"]
            /\ UNCHANGED used
       ELSE /\ IF depth[t] < MaxDepth
               THEN /\ depth' = [depth EXCEPT ![t] = @ + 1]
                    /\ used' = [used EXCEPT ![taken[t]] = Reset(@)]
                    /\ UNCHANGED pc
               ELSE /\ pc' = StackOverflow
                    /\ UNCHANGED <<depth, used>>
            /\ UNCHANGED <<gqueue, taken, hnd>>
    /\ UNCHANGED <<cfgVars, nextId, bufcap, freed, written, arcs, v1Vars, ginit, gcap, gpoison, gfirst, lVars>>
    /\ UNCHANGED issuer
    /\ UNCHANGED rejected
    /\ UNCHANGED loc

\* ------------------------------------------------ v3: local lock-free pool
\* FlatBufferBuilderPool::build
LBuild(p) ==
    /\ UsesLocal
    /\ ~Aborted
    /\ lstate[p] = "unbuilt"
    /\ factory.max > 0
    /\ factory.init <= factory.max
    /\ nextId + GPending + factory.init - 1 <= MaxBuilders
    /\ lstate' = [lstate EXCEPT ![p] = "alive"]
    /\ lcap' = [lcap EXCEPT ![p] = QueueCapacity(factory.max)]
    /\ lcapacity' = [lcapacity EXCEPT ![p] = factory.capacity]
    /\ lqueue' = [lqueue EXCEPT ![p] =
                    [i \in 1..factory.init |-> LocalBuilderNew(p, nextId + i - 1)]]
    /\ nextId' = nextId + factory.init
    /\ bufcap' = [b \in Builders |->
                    IF b \in SeqRange(FreshIds(nextId, factory.init))
                    THEN factory.capacity ELSE bufcap[b]]
    /\ UNCHANGED <<cfgVars, used, freed, written, thrVars, v1Vars, gVars, drainSet>>
    /\ UNCHANGED rejected

\* LocalFlatBufferBuilderPool::get
LGet(t, p) ==
    /\ UsesLocal
    /\ pc[t] = "idle"
    /\ lstate[p] = "alive"
    /\ IF lqueue[p] # <<>>
       THEN /\ hnd' = [hnd EXCEPT ![t] = Head(lqueue[p])]
            /\ lqueue' = [lqueue EXCEPT ![p] = QueueAfterPop(@)]
            /\ UNCHANGED <<nextId, bufcap>>
       ELSE /\ nextId + GPending <= MaxBuilders
            /\ hnd' = [hnd EXCEPT ![t] = LocalBuilderNew(p, nextId)]
            /\ nextId' = nextId + 1
            /\ bufcap' = [bufcap EXCEPT ![nextId] = lcapacity[p]]
            /\ UNCHANGED lqueue
    /\ pc' = [pc EXCEPT ![t] = "out"]
    /\ issuer' = [issuer EXCEPT ![t] = p]
    /\ UNCHANGED <<cfgVars, used, freed, written, taken, depth, arcs, v1Vars, gVars,
                   lstate, lcap, lcapacity, drainSet>>
    /\ UNCHANGED rejected
    /\ UNCHANGED loc

\* Drop of an ArrayQueue<LocalBuilder> with its last Arc: every wrapper left in it is
\* dropped; Drop for LocalBuilder finds `self.pool.upgrade()` None and frees the builder.
QueueDropFreed(p) ==
    [b \in Builders |->
        IF \E i \in 1..Len(lqueue[p]) : lqueue[p][i].inner = b
        THEN freed[b] + 1 ELSE freed[b]]

\* Drop for LocalBuilder, `self.inner.take()`, `if self.is_drained() { return; }`,
\* `builder.reset()`.
LDropReset(t) ==
    /\ UsesLocal
    /\ pc[t] = "out"
    /\ hnd[t].pool # NoPool
    /\ IF hnd[t].drained
       THEN /\ freed' = [freed EXCEPT ![hnd[t].inner] = @ + 1]
            /\ hnd' = [hnd EXCEPT ![t] = NoHandle]
            /\ pc' = [pc EXCEPT ![t] = "idle"]
            /\ UNCHANGED <<taken, used>>
       ELSE /\ taken' = [taken EXCEPT ![t] = hnd[t].inner]
            /\ hnd' = [hnd EXCEPT ![t].inner = None]
            /\ used' = [used EXCEPT ![hnd[t].inner] = Reset(@)]
            /\ pc' = [pc EXCEPT ![t] = "l_upgrade"]
            /\ UNCHANGED freed
    /\ UNCHANGED <<cfgVars, nextId, bufcap, written, depth, arcs, v1Vars, gVars, lVars>>
    /\ UNCHANGED issuer
    /\ UNCHANGED rejected
    /\ UNCHANGED loc

\* Drop for LocalBuilder, `if let Some(pool) = &self.pool.upgrade()`; on None the
\* builder is dropped at the end of the function.
LDropUpgrade(t) ==
    /\ pc[t] = "l_upgrade"
    /\ IF StrongCount(hnd[t].pool) > 0
       THEN /\ arcs' = [arcs EXCEPT ![t] = @ + 1]
            /\ pc' = [pc EXCEPT ![t] = "l_push"]
            /\ UNCHANGED <<freed, taken, hnd, depth>>
       ELSE /\ freed' = [freed EXCEPT ![taken[t]] = @ + 1]
            /\ taken' = [taken EXCEPT ![t] = None]
            /\ hnd' = [hnd EXCEPT ![t] = NoHandle]
            /\ depth' = [depth EXCEPT ![t] = 0]
            /\ pc' = [pc EXCEPT ![t] = "idle"]
            /\ UNCHANGED arcs
    /\ UNCHANGED <<cfgVars, nextId, used, bufcap, written, v1Vars, gVars, lVars>>
    /\ UNCHANGED issuer
    /\ UNCHANGED rejected
    /\ UNCHANGED loc

\* Drop for LocalBuilder, `LocalBuilder::new(self.pool.clone(), builder)` and
\* `if let Err(_err) = pool.push(builder)`.  A rejected push hands the wrapper back
\* in `_err`; dropping `_err` at the end of the block runs Drop for LocalBuilder on
\* it (not drained): take, reset, then upgrade and push again, one frame deeper.
LDropPush(t) ==
    /\ pc[t] = "l_push"
    /\ IF QueueHasRoom(lqueue[hnd[t].pool], lcap[hnd[t].pool])
       THEN /\ lqueue' = [lqueue EXCEPT ![hnd[t].pool] =
                            Append(@, LocalBuilderNew(hnd[t].pool, taken[t]))]
            /\ taken' = [taken EXCEPT ![t] = None]
            /\ pc' = [pc EXCEPT ![t] = "l_unwind"]
            /\ UNCHANGED <<depth, used>>
       ELSE /\ IF depth[t] < MaxDepth
               THEN /\ depth' = [depth EXCEPT ![t] = @ + 1]
                    /\ used' = [used EXCEPT ![taken[t]] = Reset(@)]
                    /\ pc' = [pc EXCEPT ![t] = "l_upgrade"]
               ELSE /\ pc' = StackOverflow
                    /\ UNCHANGED <<depth, used>>
            /\ UNCHANGED <<lqueue, taken>>
    /\ UNCHANGED <<cfgVars, nextId, bufcap, freed, written, hnd, arcs, v1Vars, gVars,
                   lstate, lcap, lcapacity, drainSet>>
    /\ UNCHANGED issuer
    /\ UNCHANGED rejected
    /\ UNCHANGED loc

\* Drop for LocalBuilder, the end of `if let Some(pool) = ..`: one frame drops its
\* upgraded Arc; the last Arc of a queue drops the queue.
LDropArc(t) ==
    /\ pc[t] = "l_unwind"
    /\ arcs' = [arcs EXCEPT ![t] = @ - 1]
    /\ IF StrongCount(hnd[t].pool) = 1
       THEN /\ freed' = QueueDropFreed(hnd[t].pool)
            /\ lqueue' = [lqueue EXCEPT ![hnd[t].pool] = <<>>]
       ELSE UNCHANGED <<freed, lqueue>>
    /\ IF arcs[t] = 1
       THEN /\ pc' = [pc EXCEPT ![t] = "idle"]
            /\ hnd' = [hnd EXCEPT ![t] = NoHandle]
            /\ depth' = [depth EXCEPT ![t] = 0]
       ELSE UNCHANGED <<pc, hnd, depth>>
    /\ UNCHANGED <<cfgVars, nextId, used, bufcap, written, taken, v1Vars, gVars,
                   lstate, lcap, lcapacity, drainSet>>
    /\ UNCHANGED issuer
    /\ UNCHANGED rejected
    /\ UNCHANGED loc

\* The builders idle in pool p.
IdleIn(p) == {lqueue[p][i].inner : i \in 1..Len(lqueue[p])}

\* A teardown iteration that forgets the popped wrapper instead of dropping it: the
\* builder is neither in the queue nor freed.
LDrainPopLeaks(p) ==
    /\ UsesLocal
    /\ ~Aborted
    /\ lstate[p] \in {"alive", "draining"}
    /\ lqueue[p] # <<>>
    /\ lqueue' = [lqueue EXCEPT ![p] = Tail(@)]
    /\ lstate' = [lstate EXCEPT ![p] = "draining"]
    /\ drainSet' = IF lstate[p] = "alive"
                   THEN [drainSet EXCEPT ![p] = IdleIn(p)] ELSE drainSet
    /\ UNCHANGED <<cfgVars, bldVars, thrVars, v1Vars, gVars, lcap, lcapacity>>

\* Drop for LocalFlatBufferBuilderPool, one iteration of
\* `while let Ok(mut builder) = self.inner.pop() { builder.drain(); }`: the popped
\* wrapper is marked drained and dropped; its Drop returns early, freeing the builder.
LDrainPop(p) ==
    /\ UsesLocal
    /\ ~Aborted
    /\ lstate[p] \in {"alive", "draining"}
    /\ lqueue[p] # <<>>
    /\ lqueue' = [lqueue EXCEPT ![p] = QueueAfterPop(@)]
    /\ freed' = [freed EXCEPT ![Head(lqueue[p]).inner] = @ + 1]
    /\ lstate' = [lstate EXCEPT ![p] = "draining"]
    /\ drainSet' = IF lstate[p] = "alive"
                   THEN [drainSet EXCEPT ![p] = IdleIn(p)] ELSE drainSet
    /\ UNCHANGED <<cfgVars, nextId, used, bufcap, written, thrVars, v1Vars, gVars,
                   lcap, lcapacity>>
    /\ UNCHANGED rejected

\* Drop for LocalFlatBufferBuilderPool, `self.inner.pop()` fails: the loop ends.
LDrainEnd(p) ==
    /\ UsesLocal
    /\ ~Aborted
    /\ lstate[p] \in {"alive", "draining"}
    /\ lqueue[p] = <<>>
    /\ lstate' = [lstate EXCEPT ![p] = "drained"]
    /\ drainSet' = IF lstate[p] = "alive"
                   THEN [drainSet EXCEPT ![p] = {}] ELSE drainSet
    /\ UNCHANGED <<cfgVars, bldVars, thrVars, v1Vars, gVars, lqueue, lcap, lcapacity>>

\* After Drop::drop the field `inner: Arc<ArrayQueue<..>>` of the pool value is dropped.
LPoolDrop(p) ==
    /\ ~Aborted
    /\ lstate[p] = "drained"
    /\ lstate' = [lstate EXCEPT ![p] = "dead"]
    /\ IF StrongCount(p) = 1
       THEN /\ freed' = QueueDropFreed(p)
            /\ lqueue' = [lqueue EXCEPT ![p] = <<>>]
       ELSE UNCHANGED <<freed, lqueue>>
    /\ UNCHANGED <<cfgVars, nextId, used, bufcap, written, thrVars, v1Vars, gVars,
                   lcap, lcapacity, drainSet>>
    /\ UNCHANGED rejected

\* ------------------------------------------------------------------- Spec
\* The pool that behaviours of Spec build.
MainPool == CHOOSE p \in Pools : \A q \in Pools : p <= q

Next ==
    \/ \E t \in Threads : Write(t)
    \/ \E t \in Threads : V1Force(t)
    \/ \E t \in Threads : V1Default(t)
    \/ \E t \in Threads : V1GetLock(t)
    \/ \E t \in Threads : V1GetPop(t)
    \/ \E t \in Threads : V1DropReset(t)
    \/ \E t \in Threads : V1DropLock(t)
    \/ \E t \in Threads : V1DropPush(t)
    \/ \E t \in Threads : GForce(t)
    \/ \E t \in Threads : GDefault(t)
    \/ \E t \in Threads : GGet(t)
    \/ \E t \in Threads : GDropReset(t)
    \/ \E t \in Threads : GDropPush(t)
    \/ LBuild(MainPool)
    \/ \E t \in Threads : LGet(t, MainPool)
    \/ \E t \in Threads : LDropReset(t)
    \/ \E t \in Threads : LDropUpgrade(t)
    \/ \E t \in Threads : LDropPush(t)
    \/ \E t \in Threads : LDropArc(t)
    \/ LDrainPop(MainPool)
    \/ LDrainEnd(MainPool)
    \/ LPoolDrop(MainPool)

Spec == Init /\ [][Next]_vars

\* ---------------------------------------------------------- configuration
\* The sizes and buffer capacities a setter is called with.
Sizes == 0..MaxSize
PositiveSizes == 1..MaxSize
AltBufferCapacity == 2 * DEFAULT_BUFFER_CAPACITY
BufferCapacities == {DEFAULT_BUFFER_CAPACITY, AltBufferCapacity}

\* The thread of a program that configures and builds from one thread.
MainThread == CHOOSE t \in Threads : \A u \in Threads : t <= u

\* The positions of a thread inside init_global_pool_size, max_global_pool_size
\* and new().
SetterPcs == {"init_store", "init_adjust", "max_store", "max_adjust"}
NewPcs == {"new_max", "new_capacity"}

\* The three functions below are safe `pub fn`s whose bodies access the `static
\* mut`s without synchronisation: each access is a step of its own, and two threads
\* inside them race.  The load of the other static in `if MAX_POOL_SIZE < size`
\* does not depend on the store before it, so the build may do it first: the
\* call latches the value an early load sees, and the test uses that value or
\* the one the static has when the test runs.

\* init_global_pool_size(size), entered by a thread that is between two
\* operations on a pool.
InitGlobalPoolSizeCall(t, size) ==
    /\ ~Aborted
    /\ pc[t] = "idle"
    /\ loc' = [loc EXCEPT ![t] = [size |-> size, seen |-> MAX_POOL_SIZE]]
    /\ pc' = [pc EXCEPT ![t] = "init_store"]
    /\ UNCHANGED <<cfgVars, bldVars, hndVars, v1Vars, gVars, lVars>>

\* init_global_pool_size, `INIT_POOL_SIZE = size;`
InitGlobalPoolSizeStore(t) ==
    /\ pc[t] = "init_store"
    /\ INIT_POOL_SIZE' = loc[t].size
    /\ pc' = [pc EXCEPT ![t] = "init_adjust"]
    /\ UNCHANGED <<variant, MAX_POOL_SIZE, BUFFER_CAPACITY, factory>>
    /\ UNCHANGED <<bldVars, hndVars, loc, v1Vars, gVars, lVars>>

\* init_global_pool_size, `if MAX_POOL_SIZE < size { MAX_POOL_SIZE = size; }`, and
\* the return.
InitGlobalPoolSizeAdjust(t) ==
    /\ pc[t] = "init_adjust"
    /\ \E max \in {loc[t].seen, MAX_POOL_SIZE} :
          MAX_POOL_SIZE' = IF max < loc[t].size THEN loc[t].size ELSE MAX_POOL_SIZE
    /\ pc' = [pc EXCEPT ![t] = "idle"]
    /\ loc' = [loc EXCEPT ![t] = NoLocals]
    /\ UNCHANGED <<variant, INIT_POOL_SIZE, BUFFER_CAPACITY, factory>>
    /\ UNCHANGED <<bldVars, hndVars, v1Vars, gVars, lVars>>

\* FlatBufferBuilderPool::init_global_pool_size, called with one of `sizes`.
InitGlobalPoolSize(t, sizes) ==
    \/ \E size \in sizes : InitGlobalPoolSizeCall(t, size)
    \/ InitGlobalPoolSizeStore(t)
    \/ InitGlobalPoolSizeAdjust(t)

\* max_global_pool_size(size), entered by a thread that is between two
\* operations on a pool.
MaxGlobalPoolSizeCall(t, size) ==
    /\ ~Aborted
    /\ pc[t] = "idle"
    /\ loc' = [loc EXCEPT ![t] = [size |-> size, seen |-> INIT_POOL_SIZE]]
    /\ pc' = [pc EXCEPT ![t] = "max_store"]
    /\ UNCHANGED <<cfgVars, bldVars, hndVars, v1Vars, gVars, lVars>>

\* A `MAX_POOL_SIZE = size;` that also gives the live queue the new capacity.
MaxGlobalPoolSizeResizes(t) ==
    /\ pc[t] = "max_store"
    /\ MAX_POOL_SIZE' = loc[t].size
    /\ gcap' = IF ginit THEN loc[t].size ELSE gcap
    /\ pc' = [pc EXCEPT ![t] = "max_adjust"]
    /\ UNCHANGED <<variant, INIT_POOL_SIZE, BUFFER_CAPACITY, factory>>
    /\ UNCHANGED <<bldVars, hndVars, loc, v1Vars, ginit, gqueue, gpoison, gfirst, lVars>>

\* max_global_pool_size, `MAX_POOL_SIZE = size;`
MaxGlobalPoolSizeStore(t) ==
    /\ pc[t] = "max_store"
    /\ MAX_POOL_SIZE' = loc[t].size
    /\ pc' = [pc EXCEPT ![t] = "max_adjust"]
    /\ UNCHANGED <<variant, INIT_POOL_SIZE, BUFFER_CAPACITY, factory>>
    /\ UNCHANGED <<bldVars, hndVars, loc, v1Vars, gVars, lVars>>

\* max_global_pool_size, `if INIT_POOL_SIZE > size { INIT_POOL_SIZE = size; }`, and
\* the return.
MaxGlobalPoolSizeAdjust(t) ==
    /\ pc[t] = "max_adjust"
    /\ \E init \in {loc[t].seen, INIT_POOL_SIZE} :
          INIT_POOL_SIZE' = IF init > loc[t].size THEN loc[t].size ELSE INIT_POOL_SIZE
    /\ pc' = [pc EXCEPT ![t] = "idle"]
    /\ loc' = [loc EXCEPT ![t] = NoLocals]
    /\ UNCHANGED <<variant, MAX_POOL_SIZE, BUFFER_CAPACITY, factory>>
    /\ UNCHANGED <<bldVars, hndVars, v1Vars, gVars, lVars>>

\* FlatBufferBuilderPool::max_global_pool_size, called with one of `sizes`.
MaxGlobalPoolSize(t, sizes) ==
    \/ \E size \in sizes : MaxGlobalPoolSizeCall(t, size)
    \/ MaxGlobalPoolSizeStore(t)
    \/ MaxGlobalPoolSizeAdjust(t)

\* global_buffer_capacity that also re-allocates the buffers of the idle builders.
GlobalBufferCapacityRewrites(t, capacity) ==
    /\ ~Aborted
    /\ pc[t] \in {"idle", "out"}
    /\ BUFFER_CAPACITY' = capacity
    /\ bufcap' = [b \in Builders |-> IF b \in SeqRange(gqueue) THEN capacity ELSE bufcap[b]]
    /\ UNCHANGED <<variant, INIT_POOL_SIZE, MAX_POOL_SIZE, factory>>
    /\ UNCHANGED <<nextId, used, freed, written, rejected, thrVars, v1Vars, gVars, lVars>>

\* FlatBufferBuilderPool::global_buffer_capacity: one store.
GlobalBufferCapacity(t, capacity) ==
    /\ ~Aborted
    /\ pc[t] \in {"idle", "out"}
    /\ BUFFER_CAPACITY' = capacity
    /\ UNCHANGED <<variant, INIT_POOL_SIZE, MAX_POOL_SIZE, factory>>
    /\ UNCHANGED <<bldVars, thrVars, v1Vars, gVars, lVars>>

\* FlatBufferBuilderPool::new, which is Default::default(): the load of
\* INIT_POOL_SIZE.
FactoryNewInit(t) ==
    /\ ~Aborted
    /\ UsesLocal
    /\ pc[t] = "idle"
    /\ loc' = [loc EXCEPT ![t] = [size |-> INIT_POOL_SIZE, seen |-> 0]]
    /\ pc' = [pc EXCEPT ![t] = "new_max"]
    /\ UNCHANGED <<cfgVars, bldVars, hndVars, v1Vars, gVars, lVars>>

\* Default::default(), the load of MAX_POOL_SIZE.
FactoryNewMax(t) ==
    /\ pc[t] = "new_max"
    /\ loc' = [loc EXCEPT ![t].seen = MAX_POOL_SIZE]
    /\ pc' = [pc EXCEPT ![t] = "new_capacity"]
    /\ UNCHANGED <<cfgVars, bldVars, hndVars, v1Vars, gVars, lVars>>

\* A new() that takes the declared values instead of the ones it loaded.
FactoryNewDeclared(t) ==
    /\ pc[t] = "new_capacity"
    /\ factory' = FactoryDefault(DEFAULT_INIT_POOL_SIZE, DEFAULT_MAX_POOL_SIZE,
                                 DEFAULT_BUFFER_CAPACITY)
    /\ pc' = [pc EXCEPT ![t] = "idle"]
    /\ loc' = [loc EXCEPT ![t] = NoLocals]
    /\ UNCHANGED <<variant, INIT_POOL_SIZE, MAX_POOL_SIZE, BUFFER_CAPACITY>>
    /\ UNCHANGED <<bldVars, hndVars, v1Vars, gVars, lVars>>

\* Default::default(), the load of BUFFER_CAPACITY and the factory value made of
\* the three values loaded.
FactoryNewCapacity(t) ==
    /\ pc[t] = "new_capacity"
    /\ factory' = FactoryDefault(loc[t].size, loc[t].seen, BUFFER_CAPACITY)
    /\ pc' = [pc EXCEPT ![t] = "idle"]
    /\ loc' = [loc EXCEPT ![t] = NoLocals]
    /\ UNCHANGED <<variant, INIT_POOL_SIZE, MAX_POOL_SIZE, BUFFER_CAPACITY>>
    /\ UNCHANGED <<bldVars, hndVars, v1Vars, gVars, lVars>>

\* FlatBufferBuilderPool::new
FactoryNew(t) ==
    \/ FactoryNewInit(t)
    \/ FactoryNewMax(t)
    \/ FactoryNewCapacity(t)

\* FlatBufferBuilderPool::init_pool_size
InitPoolSize(size) ==
    /\ ~Aborted
    /\ UsesLocal
    /\ factory' = [factory EXCEPT !.init = size,
                                  !.max = IF @ < size THEN size ELSE @]
    /\ UNCHANGED <<variant, INIT_POOL_SIZE, MAX_POOL_SIZE, BUFFER_CAPACITY>>
    /\ UNCHANGED <<bldVars, thrVars, v1Vars, gVars, lVars>>

\* FlatBufferBuilderPool::max_pool_size
MaxPoolSize(size) ==
    /\ ~Aborted
    /\ UsesLocal
    /\ factory' = [factory EXCEPT !.max = size,
                                  !.init = IF @ > size THEN size ELSE @]
    /\ UNCHANGED <<variant, INIT_POOL_SIZE, MAX_POOL_SIZE, BUFFER_CAPACITY>>
    /\ UNCHANGED <<bldVars, thrVars, v1Vars, gVars, lVars>>

\* FlatBufferBuilderPool::buffer_capacity
BufferCapacity(capacity) ==
    /\ ~Aborted
    /\ UsesLocal
    /\ factory' = [factory EXCEPT !.capacity = capacity]
    /\ UNCHANGED <<variant, INIT_POOL_SIZE, MAX_POOL_SIZE, BUFFER_CAPACITY>>
    /\ UNCHANGED <<bldVars, thrVars, v1Vars, gVars, lVars>>

\* The first access to v3 POOL when it does not return.  An earlier
\* initialisation panicked, or `ArrayQueue::new(max)` is given the 0 the closure
\* loaded (it panics with "capacity must be non-zero"): the Lazy is poisoned
\* and the calling thread panics; a release that made the access frees its
\* `builder` while unwinding.  The closure loaded an initial size above the
\* maximum it loaded: once the queue is full the next
\* builder is allocated and its push is rejected, `.unwrap()` panics, and the
\* unwinding drops the rejected wrapper, whose Drop takes the builder, resets it
\* and calls POOL.push: a second Lazy::force, on the thread that is inside the
\* first one.  The thread never comes back, the Lazy stays mid-initialisation,
\* and every later access to POOL waits for it.
GForcePanic(t) ==
    /\ UsesGlobal
    /\ ~ginit
    /\ ~GHung
    /\ IF pc[t] = "g_fill"
       THEN /\ Len(gqueue) < loc[t].size
            /\ ~QueueHasRoom(gqueue, gcap)
            /\ nextId <= MaxBuilders
            /\ rejected' = nextId
            /\ nextId' = nextId + 1
            /\ bufcap' = [bufcap EXCEPT ![nextId] = BUFFER_CAPACITY]
            /\ pc' = [pc EXCEPT ![t] = "g_hang"]
            /\ UNCHANGED <<gpoison, freed, taken, hnd>>
       ELSE /\ \/ pc[t] \in {"idle", "g_push"} /\ gpoison
               \/ pc[t] = "g_force_max" /\ MAX_POOL_SIZE = 0
            /\ gpoison' = TRUE
            /\ pc' = [pc EXCEPT ![t] = "panicked"]
            /\ IF taken[t] # None
               THEN /\ freed' = [freed EXCEPT ![taken[t]] = @ + 1]
                    /\ taken' = [taken EXCEPT ![t] = None]
                    /\ hnd' = [hnd EXCEPT ![t] = NoHandle]
               ELSE UNCHANGED <<freed, taken, hnd>>
            /\ UNCHANGED <<nextId, bufcap, rejected>>
    /\ loc' = [loc EXCEPT ![t] = NoLocals]
    /\ UNCHANGED <<cfgVars, used, written, depth, arcs, issuer, v1Vars,
                   ginit, gqueue, gcap, gfirst, lVars>>

\* FlatBufferBuilderPool::build when it does not return.  `ArrayQueue::new(self.max)`
\* is given 0: build panics before anything is allocated.  init > max: the
\* queue is made and filled, the next builder is allocated and its push is
\* rejected, `.unwrap()` panics, and the unwinding drops the rejected wrapper
\* while `inner` is alive: its Drop upgrades, pushes into the full queue and
\* drops the wrapper it gets back, without end: the stack overflows and the
\* process aborts.
LBuildPanic(p) ==
    /\ UsesLocal
    /\ ~Aborted
    /\ lstate[p] = "unbuilt"
    /\ factory.max = 0 \/ factory.init > factory.max
    /\ lstate' = [lstate EXCEPT ![p] = "panicked"]
    /\ IF factory.max = 0
       THEN UNCHANGED <<nextId, bufcap, rejected, pc, lqueue, lcap, lcapacity>>
       ELSE /\ nextId + GPending + factory.max <= MaxBuilders
            /\ lcap' = [lcap EXCEPT ![p] = QueueCapacity(factory.max)]
            /\ lcapacity' = [lcapacity EXCEPT ![p] = factory.capacity]
            /\ lqueue' = [lqueue EXCEPT ![p] =
                            [i \in 1..factory.max |-> LocalBuilderNew(p, nextId + i - 1)]]
            /\ rejected' = nextId + factory.max
            /\ nextId' = nextId + factory.max + 1
            /\ bufcap' = [b \in Builders |->
                            IF b \in SeqRange(FreshIds(nextId, factory.max + 1))
                            THEN factory.capacity ELSE bufcap[b]]
            /\ pc' = StackOverflow
    /\ UNCHANGED <<cfgVars, used, freed, written, hndVars, loc, v1Vars, gVars, drainSet>>

\* The main thread is between two calls, or between two uses of its handle.
MainFree == pc[MainThread] \in {"idle", "out"}

\* A program configuring and using the lock-free pools from its main thread,
\* started with the statics at their declared values.  Its pools live as long
\* as the program: teardown is left to Spec.  Whatever is called without a
\* thread of its own in the model (the factory setters, build()) is called by
\* the main thread between two of its other calls.  A handle made by
\* Default::default() is here the one whose release makes the first use of
\* the global pool; later ones are in Spec.  A program of the global pool
\* calls the global setters, a program of local pools configures its factory.
InitConfig ==
    /\ variant \in {"global", "local"}
    /\ INIT_POOL_SIZE = DEFAULT_INIT_POOL_SIZE
    /\ MAX_POOL_SIZE = DEFAULT_MAX_POOL_SIZE
    /\ BUFFER_CAPACITY = DEFAULT_BUFFER_CAPACITY
    /\ factory = FactoryDefault(INIT_POOL_SIZE, MAX_POOL_SIZE, BUFFER_CAPACITY)
    /\ Fresh

NextConfig ==
    \/ variant = "global" /\ InitGlobalPoolSize(MainThread, Sizes)
    \/ variant = "global" /\ MaxGlobalPoolSize(MainThread, Sizes)
    \/ \E capacity \in BufferCapacities :
          variant = "global" /\ GlobalBufferCapacity(MainThread, capacity)
    \/ FactoryNew(MainThread)
    \/ \E size \in Sizes : MainFree /\ InitPoolSize(size)
    \/ \E size \in Sizes : MainFree /\ MaxPoolSize(size)
    \/ \E capacity \in BufferCapacities : MainFree /\ BufferCapacity(capacity)
    \/ Write(MainThread)
    \/ GForce(MainThread)
    \/ GForcePanic(MainThread)
    \/ ~ginit /\ GDefault(MainThread)
    \/ GGet(MainThread)
    \/ GDropReset(MainThread)
    \/ GDropPush(MainThread)
    \/ MainFree /\ LBuild(MainPool)
    \/ MainFree /\ LBuildPanic(MainPool)
    \/ LGet(MainThread, MainPool)
    \/ LDropReset(MainThread)
    \/ LDropUpgrade(MainThread)
    \/ LDropPush(MainThread)
    \/ LDropArc(MainThread)

SpecConfig == InitConfig /\ [][NextConfig]_vars

\* ------------------------------------------------ v1 under fair scheduling
\* The locked pool alone, with its declared statics.
InitV1 ==
    /\ variant = "v1"
    /\ INIT_POOL_SIZE = DEFAULT_INIT_POOL_SIZE
    /\ MAX_POOL_SIZE = DEFAULT_MAX_POOL_SIZE
    /\ BUFFER_CAPACITY = DEFAULT_BUFFER_CAPACITY
    /\ factory = FactoryDefault(INIT_POOL_SIZE, MAX_POOL_SIZE, BUFFER_CAPACITY)
    /\ Fresh

NextV1 ==
    \/ \E t \in Threads : Write(t)
    \/ \E t \in Threads : V1Force(t)
    \/ \E t \in Threads : V1Default(t)
    \/ \E t \in Threads : V1GetLock(t)
    \/ \E t \in Threads : V1GetPop(t)
    \/ \E t \in Threads : V1DropReset(t)
    \/ \E t \in Threads : V1DropLock(t)
    \/ \E t \in Threads : V1DropPush(t)

\* Fair scheduling: a thread inside get() or a release keeps running (weak
\* fairness of the steps it takes while holding the lock, and of the first access
\* to POOL when a release is the one to make it), and a thread waiting
\* in lock() gets the lock if it is free again and again (parking_lot's mutex
\* hands the lock over to a waiter that has waited long enough).  Callers
\* are not obliged to call get() or to release.
FairV1 ==
    \A t \in Threads :
        /\ WF_vars(V1GetPop(t))
        /\ WF_vars(pc[t] = "v1_lock" /\ V1Force(t))
        /\ WF_vars(V1DropPush(t))
        /\ SF_vars(V1DropLock(t))

SpecV1Fair == InitV1 /\ [][NextV1]_vars /\ FairV1

\* ------------------------------------------------------ several local pools
\* A program that builds several local pools from its factory and uses them
\* concurrently while they are alive (the teardown of a pool is in Spec).
InitPools ==
    /\ Init
    /\ variant = "local"

NextPools ==
    \/ \E t \in Threads : Write(t)
    \/ \E p \in Pools : LBuild(p)
    \/ \E t \in Threads, p \in Pools : LGet(t, p)
    \/ \E t \in Threads : LDropReset(t)
    \/ \E t \in Threads : LDropUpgrade(t)
    \/ \E t \in Threads : LDropPush(t)
    \/ \E t \in Threads : LDropArc(t)

SpecPools == InitPools /\ [][NextPools]_vars

\* ------------------------------------------- global and local side by side
\* A program that uses the global pool and local pools from its main thread:
\* it calls the global setters, forces the global pool by its first use,
\* creates factories with new() and builds a local pool from the latest one.
\* The sizes it sets are positive, and set one after the other they never
\* leave initial > maximum, so that the first use and build() return; what
\* they do on a maximum of 0 is in SpecConfig, what the pools do once in use
\* is in Spec, SpecConfig and SpecPools.
InitFactory ==
    /\ variant = "both"
    /\ INIT_POOL_SIZE = DEFAULT_INIT_POOL_SIZE
    /\ MAX_POOL_SIZE = DEFAULT_MAX_POOL_SIZE
    /\ BUFFER_CAPACITY = DEFAULT_BUFFER_CAPACITY
    /\ factory = FactoryDefault(INIT_POOL_SIZE, MAX_POOL_SIZE, BUFFER_CAPACITY)
    /\ Fresh

NextFactory ==
    \/ InitGlobalPoolSize(MainThread, PositiveSizes)
    \/ MaxGlobalPoolSize(MainThread, PositiveSizes)
    \/ \E capacity \in BufferCapacities : GlobalBufferCapacity(MainThread, capacity)
    \/ FactoryNew(MainThread)
    \/ GForce(MainThread)
    \/ MainFree /\ LBuild(MainPool)

SpecFactory == InitFactory /\ [][NextFactory]_vars

\* ------------------------------------------------- configuration in a race
\* Two threads of a program that configure, create factories, build and make
\* the first access to the global pool at the same time: nothing in the
\* signatures of the setters and of new() keeps safe code from it.  The
\* program changes the global buffer capacity at most once, from the default.
InitRace ==
    /\ variant = "both"
    /\ INIT_POOL_SIZE \in PositiveSizes
    /\ MAX_POOL_SIZE \in PositiveSizes
    /\ INIT_POOL_SIZE <= MAX_POOL_SIZE
    /\ BUFFER_CAPACITY = DEFAULT_BUFFER_CAPACITY
    /\ factory = FactoryDefault(INIT_POOL_SIZE, MAX_POOL_SIZE, BUFFER_CAPACITY)
    /\ Fresh

NextRace ==
    \/ \E t \in Threads : InitGlobalPoolSize(t, PositiveSizes)
    \/ \E t \in Threads : MaxGlobalPoolSize(t, PositiveSizes)
    \/ BUFFER_CAPACITY = DEFAULT_BUFFER_CAPACITY
          /\ \E t \in Threads : GlobalBufferCapacity(t, AltBufferCapacity)
    \/ \E t \in Threads : FactoryNew(t)
    \/ \E t \in Threads : GForce(t)
    \/ \E t \in Threads : GForcePanic(t)
    \/ LBuild(MainPool)
    \/ LBuildPanic(MainPool)

SpecRace == InitRace /\ [][NextRace]_vars

\* ----------------------------------------------------------------- claims
\* The builder a thread holds: in its handle, or in the local of its Drop.
Holding(t) == IF hnd[t].inner # None THEN hnd[t].inner ELSE taken[t]

\* The builders idle in any pool.
IdleAll == SeqRange(v1pool) \cup SeqRange(gqueue) \cup UNION {IdleIn(p) : p \in Pools}

\* Thread t executes the push step of its release in this step.
PushStep(t) ==
    /\ pc[t] \in {"v1_push", "g_push", "l_push"}
    /\ <<pc[t], depth[t], taken[t]>>' # <<pc[t], depth[t], taken[t]>>

\* The queue thread t pushes into is full.  The global queue exists once the
\* Lazy closure has returned; before that a release at its push runs or awaits
\* the closure and pushes afterwards.
PushTargetFull(t) ==
    \/ pc[t] = "g_push" /\ ginit /\ ~QueueHasRoom(gqueue, gcap)
    \/ pc[t] = "l_push" /\ ~QueueHasRoom(lqueue[hnd[t].pool], lcap[hnd[t].pool])

\* C1: every release of a handle of a lock-free pool completes within a bounded
\* number of its own steps, whatever the other threads do: it never runs out of
\* stack retrying the push.
C1_ReleaseTerminates == \A t \in Threads : pc[t] # "overflow"

\* C2: a release whose push finds the queue full discards the builder: the push
\* step frees the builder, leaves the idle builders as they were and ends the
\* return attempt.
C2_FullReleaseDiscards ==
    [][\A t \in Threads :
        (PushStep(t) /\ PushTargetFull(t)) =>
            /\ freed'[taken[t]] = freed[taken[t]] + 1
            /\ taken'[t] = None
            /\ pc'[t] \in {"idle", "l_unwind"}
            /\ gqueue' = gqueue
            /\ lqueue' = lqueue]_vars

\* C3: in every reachable state of every pool variant the number of idle builders
\* is at most the configured maximum pool size.
C3_Capacity ==
    /\ Len(v1pool) <= V1_MAX_POOL_SIZE
    /\ Len(gqueue) <= MAX_POOL_SIZE
    /\ \A p \in Pools : Len(lqueue[p]) <= factory.max

\* A lock-free pool is full while a thread is about to push into it.
C3_Witness ==
    \E t \in Threads : pc[t] = "l_push" /\ PushTargetFull(t)

\* C4: every builder idle in a pool has empty logical content.
C4_IdleEmpty == \A b \in IdleAll : used[b] = 0

\* A builder that was written through a handle is idle in a pool.
C4_Witness == \E b \in IdleAll : b \in written

\* C5: no two outstanding handles (or releases in progress) hold the same builder.
C5_Unique ==
    \A t1, t2 \in Threads :
        (t1 # t2 /\ Holding(t1) # None) => Holding(t1) # Holding(t2)

\* Two threads hold handles at once, one of them on a recycled builder.
C5_Witness ==
    \E t1, t2 \in Threads :
        /\ t1 # t2
        /\ pc[t1] = "out" /\ pc[t2] = "out"
        /\ hnd[t1].inner \in written /\ used[hnd[t1].inner] = 0

\* C6: the return attempt of a release (take, reset, push) fires once and is never
\* re-triggered; a builder is freed at most once, is idle at most once, and is
\* never both idle and freed.
C6_SingleFire ==
    /\ \A t \in Threads : depth[t] = 0
    /\ \A b \in Builders : freed[b] <= 1
    /\ \A b \in IdleAll : freed[b] = 0
    /\ \A p \in Pools : \A i, j \in 1..Len(lqueue[p]) :
            i # j => lqueue[p][i].inner # lqueue[p][j].inner
    /\ \A i, j \in 1..Len(gqueue) : i # j => gqueue[i] # gqueue[j]

\* C7: teardown of a local pool frees the builders that were idle when it began,
\* and once the pool value is gone and every handle is released, every builder
\* allocated has been freed exactly once; no builder is ever freed twice.
C7_NoLeak ==
    /\ \A b \in Builders : freed[b] <= 1
    /\ \A p \in Pools :
        /\ lstate[p] \in {"drained", "dead"} => \A b \in drainSet[p] : freed[b] = 1
        /\ (lstate[p] = "dead" /\ \A t \in Threads : pc[t] = "idle")
              => \A b \in 1..(nextId - 1) : freed[b] = 1

\* A pool was torn down with idle builders, and a builder that was checked out and
\* written has been freed by a release, not by the teardown.
C7_Witness ==
    \E p \in Pools :
        /\ lstate[p] = "dead"
        /\ \A t \in Threads : pc[t] = "idle"
        /\ drainSet[p] # {}
        /\ \E b \in written : b \notin drainSet[p] /\ freed[b] = 1

\* C8: no builder is returned into a queue whose pool value no longer exists: once
\* the teardown has drained the queue and the pool value is gone, the queue holds
\* no builder.
C8_NoPushAfterTeardown ==
    \A p \in Pools : lstate[p] = "dead" => lqueue[p] = <<>>

\* C9: every get() yields a handle whose builder is empty, whatever was written
\* through earlier checkouts.
C9_RoundTrip ==
    [][\A t \in Threads :
        (pc[t] # "out" /\ pc'[t] = "out") => used'[hnd'[t].inner] = 0]_vars

\* A thread holds a builder that was written in an earlier checkout and is empty.
C9_Witness ==
    \E t \in Threads :
        pc[t] = "out" /\ hnd[t].inner \in written /\ used[hnd[t].inner] = 0

\* C10: get() (every way to a handle but Default::default()) allocates only when the pool holds no idle builder and otherwise
\* takes one of the idle builders out of the pool; a release that pushes into a
\* pool with room adds that same builder to the idle builders.
C10_GetRecycles ==
    [][\A t \in Threads :
        /\ (pc[t] # "out" /\ pc'[t] = "out" /\ issuer'[t] # ByDefault) =>
              IF IdleAll # {}
              THEN /\ hnd'[t].inner \in IdleAll
                   /\ IdleAll' = IdleAll \ {hnd'[t].inner}
                   /\ nextId' = nextId
              ELSE /\ hnd'[t].inner = nextId
                   /\ nextId' = nextId + 1
                   /\ IdleAll' = IdleAll
        /\ (PushStep(t) /\ ~PushTargetFull(t)
              /\ (pc[t] = "g_push" => ginit)
              /\ (pc[t] = "v1_push" => Len(v1pool) < V1_MAX_POOL_SIZE)
              /\ (pc[t] = "l_push" => PoolValueExists(hnd[t].pool)))
              => /\ IdleAll' = IdleAll \cup {taken[t]}
                 /\ taken[t] \notin IdleAll]_vars

\* initial=0, max=2: the only builder ever allocated was checked out, written,
\* released and is checked out again.
C10_Witness ==
    /\ variant = "local"
    /\ factory.init = 0 /\ factory.max = 2
    /\ nextId = 2
    /\ \E t \in Threads :
          pc[t] = "out" /\ hnd[t].inner = 1 /\ 1 \in written /\ used[1] = 0

\* C11: get() on a lock-free pool never waits, and the handles outstanding are
\* not bounded by the maximum pool size: whenever a thread is between
\* operations and the pool is usable, its get() can take its step whatever the
\* other threads hold or are doing, by popping an idle builder or, on an empty
\* queue, by allocating a builder no one holds.  Before the first use of the
\* global pool the get() runs the initialisation itself, or waits for the
\* thread that runs it, whose next step is its own and never a release.  (The
\* model stops allocating after MaxBuilders builders; the premise leaves that
\* case out.)
C11_GetNeverWaits ==
    \A t \in Threads :
        /\ (variant = "global" /\ ginit /\ pc[t] = "idle"
              /\ (gqueue # <<>> \/ nextId <= MaxBuilders))
              => ENABLED GGet(t)
        /\ (variant = "global" /\ ~ginit /\ pc[t] = "idle")
              => IF GForcing
                 THEN \E u \in Threads : pc[u] \in ForcePcs /\ ENABLED GForce(u)
                 ELSE nextId + INIT_POOL_SIZE - 1 <= MaxBuilders => ENABLED GForceInit(t)
        /\ (variant = "local" /\ lstate[MainPool] = "alive" /\ pc[t] = "idle"
              /\ (lqueue[MainPool] # <<>> \/ nextId <= MaxBuilders))
              => ENABLED LGet(t, MainPool)
        /\ (pc[t] = "out" /\ variant # "v1") =>
              \A u \in Threads \ {t} : Holding(u) # hnd[t].inner

\* Maximum 1, the queue empty, and two handles outstanding (one more than the
\* maximum), on distinct builders.
C11_Witness ==
    /\ variant = "global"
    /\ gcap = 1
    /\ gqueue = <<>>
    /\ \A t \in Threads : pc[t] = "out"
    /\ \E t, u \in Threads : t # u /\ hnd[t].inner # hnd[u].inner

\* A step of one of the three global setters that changed a static.
GlobalSetterStep ==
    \/ INIT_POOL_SIZE' # INIT_POOL_SIZE
    \/ MAX_POOL_SIZE' # MAX_POOL_SIZE
    \/ BUFFER_CAPACITY' # BUFFER_CAPACITY

\* C12 as stated: after the first use of the global lock-free pool the three
\* setters have no effect: the queue capacity is the maximum read at first
\* use, and every builder the pool allocates has the buffer capacity the
\* static had at first use.
C12_SettersHaveNoEffect ==
    (variant = "global" /\ ginit) =>
        /\ gcap = gfirst.max
        /\ \A b \in 1..(nextId - 1) : bufcap[b] = gfirst.capacity

\* C12, amended: after the first use of the global lock-free pool each of the
\* three setters is still accepted and returns; none of them changes the queue capacity,
\* the idle builders or the capacity of a builder already allocated; the two
\* size setters have no effect on the pool at all, while the buffer capacity
\* setter does take effect: every builder a later get() allocates has the
\* capacity the static holds at that allocation.
C12_SizeSettersHaveNoEffect ==
    [][(variant = "global" /\ ginit) =>
        /\ (~Aborted /\ pc[MainThread] = "idle") =>
              /\ \A size \in Sizes : ENABLED InitGlobalPoolSizeCall(MainThread, size)
              /\ \A size \in Sizes : ENABLED MaxGlobalPoolSizeCall(MainThread, size)
        /\ (~Aborted /\ MainFree) =>
              \A c \in BufferCapacities : ENABLED GlobalBufferCapacity(MainThread, c)
        /\ pc[MainThread] \in SetterPcs =>
              ENABLED (InitGlobalPoolSize(MainThread, Sizes) \/ MaxGlobalPoolSize(MainThread, Sizes))
        /\ gcap' = gfirst.max
        /\ gfirst' = gfirst
        /\ GlobalSetterStep =>
              /\ gqueue' = gqueue
              /\ bufcap' = bufcap
              /\ nextId' = nextId
        /\ nextId' # nextId =>
              /\ nextId' = nextId + 1
              /\ bufcap'[nextId] = BUFFER_CAPACITY]_vars

\* The pool was first used with the declared buffer capacity and a maximum
\* that the static no longer holds; the queue still has the capacity of the
\* first use, and a builder allocated since has the other buffer capacity.
C12_Witness ==
    /\ variant = "global"
    /\ ginit
    /\ MAX_POOL_SIZE # gfirst.max
    /\ gcap = gfirst.max
    /\ gfirst.capacity = DEFAULT_BUFFER_CAPACITY
    /\ \E b \in 1..(nextId - 1) : bufcap[b] = AltBufferCapacity

\* C13: after any sequence of calls to the initial-size and maximum-size
\* setters, of a local factory or of the global pool, in any order and with
\* any values, the initial size is at most the maximum size: for the statics
\* whenever no call of a global setter is under way, and for a factory always.
C13_InitialAtMostMaximum ==
    /\ (\A t \in Threads : pc[t] \notin SetterPcs) => INIT_POOL_SIZE <= MAX_POOL_SIZE
    /\ factory.init <= factory.max

\* The number of release stack frames of all threads that may hold an Arc of
\* pool p: a release between its upgrade() and the end of its Drop.
ReleaseInProgress(p) ==
    \E t \in Threads : hnd[t].pool = p /\ (arcs[t] > 0 \/ pc[t] \in {"l_push", "l_unwind"})

\* C14: an outstanding handle that is not executing its release holds no
\* owning reference to the queue: once the pool value is destroyed and no
\* release is in progress, nothing owns the queue and it holds no builder;
\* every release from then on finds upgrade() unresolvable and discards its
\* builder: the builder is freed, nothing is pushed, the thread returns to its
\* caller.
C14_ReleaseAfterTeardownDiscards ==
    [][\A p \in Pools :
        (lstate[p] = "dead" /\ ~ReleaseInProgress(p)) =>
            /\ StrongCount(p) = 0
            /\ lqueue[p] = <<>>
            /\ lqueue'[p] = <<>>
            /\ ~ReleaseInProgress(p)'
            /\ \A t \in Threads :
                  (hnd[t].pool = p /\ pc[t] = "l_upgrade" /\ pc'[t] # pc[t]) =>
                      /\ pc'[t] = "idle"
                      /\ freed'[taken[t]] = freed[taken[t]] + 1
                      /\ hnd'[t] = NoHandle]_vars

\* The pool value is destroyed, no release holds an Arc, and a handle that was
\* outstanding at the destruction is being released: its builder is taken and
\* reset, its upgrade() comes next.
C14_Witness ==
    \E p \in Pools, t \in Threads :
        /\ lstate[p] = "dead"
        /\ ~ReleaseInProgress(p)
        /\ hnd[t].pool = p
        /\ pc[t] = "l_upgrade"
        /\ taken[t] # None

\* The threads inside a critical section of the v1 pool lock.
V1InCriticalSection == {t \in Threads : pc[t] \in {"v1_get", "v1_push"}}

\* C15: a v1 release resets the builder while it does not hold the pool lock,
\* and does the capacity check and the push in one critical section: the
\* thread that resets is never the lock holder, a thread is at its check and
\* push exactly while it holds the lock, so no two threads are there
\* together, and a push happens only below the maximum and never takes the
\* pool above it.
C15_ResetOutsideCheckAndPushInside ==
    [][/\ \A t \in Threads : (t \in V1InCriticalSection)' <=> (v1lock' = t)
       /\ Cardinality(V1InCriticalSection') <= 1
       /\ Len(v1pool') <= V1_MAX_POOL_SIZE
       /\ \A t \in Threads :
            /\ (variant = "v1" /\ pc[t] = "out" /\ pc'[t] # "out") =>
                  /\ v1lock # t /\ v1lock' = v1lock
                  /\ used'[taken'[t]] = 0
                  /\ pc'[t] = "v1_lock"
            /\ (pc[t] = "v1_push" /\ pc'[t] # "v1_push") =>
                  /\ v1lock = t /\ v1lock' = None
                  /\ used' = used
                  /\ IF Len(v1pool) < V1_MAX_POOL_SIZE
                     THEN v1pool' = Append(v1pool, taken[t])
                     ELSE v1pool' = v1pool /\ freed'[taken[t]] = freed[taken[t]] + 1]_vars

\* One slot is free; one release is at its check and push, holding the lock,
\* and the other release, its builder already reset, waits for the lock.
C15_Witness ==
    /\ variant = "v1"
    /\ Len(v1pool) = V1_MAX_POOL_SIZE - 1
    /\ \E t, u \in Threads :
          /\ pc[t] = "v1_push" /\ v1lock = t
          /\ pc[u] = "v1_lock" /\ taken[u] # None /\ used[taken[u]] = 0
          /\ taken[u] \in written

\* C16: for every configuration reachable through the setters, build() and the
\* lazy initialisation of the global pool succeed: a pool that leaves its
\* unbuilt state is alive, its queue has the configured maximum as capacity
\* and holds exactly `initial` builders, freshly allocated, empty, of the
\* configured buffer capacity, each in a wrapper that is not drained and
\* refers back to this queue; no build() and no first access to the global
\* pool panics or fails to return.
C16_BuildSucceeds ==
    [][/\ \A p \in Pools :
            (lstate[p] = "unbuilt" /\ lstate'[p] # "unbuilt") =>
                /\ lstate'[p] = "alive"
                /\ lcap'[p] = factory.max
                /\ Len(lqueue'[p]) = factory.init
                /\ \A i \in 1..Len(lqueue'[p]) :
                      /\ lqueue'[p][i] = LocalBuilderNew(p, nextId + i - 1)
                      /\ used'[nextId + i - 1] = 0
                      /\ bufcap'[nextId + i - 1] = factory.capacity
                /\ nextId' = nextId + factory.init
       /\ (variant = "global" /\ ~ginit /\ (ginit' \/ gpoison')) =>
                /\ ginit' /\ ~gpoison'
                /\ gcap' = MAX_POOL_SIZE
                /\ Len(gqueue') = INIT_POOL_SIZE
                /\ \A i \in 1..Len(gqueue') :
                      /\ used'[gqueue'[i]] = 0
                      /\ bufcap'[gqueue'[i]] = BUFFER_CAPACITY
                      /\ gqueue'[i] \notin written'
                      /\ \A j \in 1..Len(gqueue') : gqueue'[i] = gqueue'[j] => i = j
       /\ \A t \in Threads : pc'[t] \notin {"panicked", "g_hang"}]_vars

\* The builders allocated so far.
Allocated == 1..(nextId - 1)

\* C17: the buffer capacity is fixed at allocation: no step (a capacity
\* setter, a release, a get(), a build) changes the capacity of a builder
\* already allocated, idle or checked out; a builder allocated by a step has
\* the capacity in force at that step: the static for the global pool, the
\* factory's capacity for a build, the capacity the pool was built with for a
\* local get().
C17_CapacityFixedAtAllocation ==
    [][/\ \A b \in Allocated : bufcap'[b] = bufcap[b]
       /\ \A b \in Allocated' \ Allocated :
            /\ variant = "global" => bufcap'[b] = BUFFER_CAPACITY
            /\ variant = "local" =>
                  \/ \E p \in Pools : /\ lstate[p] = "unbuilt" /\ lstate'[p] = "alive"
                                      /\ bufcap'[b] = factory.capacity
                  \/ \E t \in Threads : /\ pc[t] = "idle" /\ hnd'[t].inner = b
                                        /\ bufcap'[b] = lcapacity[hnd'[t].pool]]_vars

\* A builder allocated with the declared capacity has been checked out,
\* written and released; it is idle in the global pool with that capacity
\* while the static holds the other capacity.
C17_Witness ==
    /\ variant = "global"
    /\ BUFFER_CAPACITY = AltBufferCapacity
    /\ \E i \in 1..Len(gqueue) :
          /\ bufcap[gqueue[i]] = DEFAULT_BUFFER_CAPACITY
          /\ gqueue[i] \in written

\* C18: the drained flag is set only on a wrapper the teardown of its pool has
\* just popped (and drops at once): every handle a caller holds and every
\* wrapper in a queue has drained = FALSE, so a release by a caller never
\* takes the drained return: it always goes on to take and reset its builder
\* and to the upgrade() of its back-reference, also while the pool is being
\* torn down.
C18_DrainedOnlyInTeardown ==
    [][/\ \A t \in Threads : ~hnd'[t].drained
       /\ \A p \in Pools : \A i \in 1..Len(lqueue'[p]) : ~lqueue'[p][i].drained
       /\ \A t \in Threads :
            (variant = "local" /\ pc[t] = "out" /\ hnd'[t] # hnd[t]) =>
                /\ pc'[t] = "l_upgrade"
                /\ taken'[t] = hnd[t].inner
                /\ freed' = freed]_vars

\* The teardown has popped and drained the idle wrappers of the pool while a
\* handle of that pool is outstanding; that handle is not drained and has
\* started its release.
C18_Witness ==
    \E p \in Pools, t \in Threads :
        /\ lstate[p] \in {"draining", "drained"}
        /\ drainSet[p] # {}
        /\ \A b \in drainSet[p] : freed[b] = 1
        /\ hnd[t].pool = p
        /\ ~hnd[t].drained
        /\ pc[t] = "l_upgrade"

\* C19: the locked pool is deadlock-free: under fair scheduling every thread
\* that holds the lock gives it back, every get() that holds the lock returns
\* its handle, and every release that waits for the lock gets it, pushes or
\* discards, and returns to its caller.
C19_V1EveryOperationCompletes ==
    \A t \in Threads :
        /\ (v1lock = t) ~> (v1lock = None)
        /\ (pc[t] = "v1_get") ~> (pc[t] = "out")
        /\ (pc[t] \in {"v1_lock", "v1_push"}) ~> (pc[t] = "idle")

\* One thread is inside get(), holding the lock, while the other thread's
\* release, its builder taken and reset, waits for the lock.
C19_Witness ==
    /\ variant = "v1"
    /\ \E t, u \in Threads :
          /\ pc[t] = "v1_get" /\ v1lock = t
          /\ pc[u] = "v1_lock" /\ taken[u] # None

\* C20: with several local pools, a builder only goes back to the pool that
\* issued its handle: every wrapper idle in a queue refers back to that queue,
\* every handle refers back to the queue of the pool whose get() returned it,
\* and a release that pushes pushes a wrapper referring to the issuing pool
\* into the queue of the issuing pool and touches no other queue.
C20_ReturnsToIssuer ==
    [][/\ \A p \in Pools : \A i \in 1..Len(lqueue'[p]) : lqueue'[p][i].pool = p
       /\ \A t \in Threads : hnd'[t] # NoHandle => hnd'[t].pool = issuer'[t]
       /\ \A t \in Threads :
            (pc[t] = "l_push" /\ pc'[t] = "l_unwind") =>
                /\ lqueue'[issuer[t]] =
                      Append(lqueue[issuer[t]], LocalBuilderNew(issuer[t], taken[t]))
                /\ \A q \in Pools \ {issuer[t]} : lqueue'[q] = lqueue[q]]_vars

\* Two pools are alive; a handle issued by one of them is checked out while a
\* wrapper re-created by a release is idle in the other.
C20_Witness ==
    \E p, q \in Pools, t \in Threads :
        /\ p # q
        /\ lstate[p] = "alive" /\ lstate[q] = "alive"
        /\ pc[t] = "out" /\ issuer[t] = p /\ hnd[t].pool = p
        /\ \E i \in 1..Len(lqueue[q]) : lqueue[q][i].inner \in written

\* The number of places builder b is idle in: positions of the v1 pool, of the
\* global queue and of the local queues that hold it.
IdlePlaces(b) ==
    Cardinality({i \in 1..Len(v1pool) : v1pool[i] = b})
    + Cardinality({i \in 1..Len(gqueue) : gqueue[i] = b})
    + Cardinality({pi \in Pools \X (1..MaxBuilders) :
                      pi[2] <= Len(lqueue[pi[1]]) /\ lqueue[pi[1]][pi[2]].inner = b})

\* The number of holders of builder b: the threads that hold it in a handle or
\* in a release in progress, and the release of the wrapper that the push of
\* an initialisation rejected.
HeldPlaces(b) ==
    Cardinality({t \in Threads : Holding(t) = b}) + (IF rejected = b THEN 1 ELSE 0)

\* C21: conservation of builders: every builder allocated so far is in exactly
\* one place: at one position of one pool, or with one thread (in its handle
\* or in its release in progress), or freed, once; a builder not yet allocated
\* is nowhere.
C21_Conservation ==
    /\ \A b \in Allocated : IdlePlaces(b) + HeldPlaces(b) + freed[b] = 1
    /\ \A b \in Builders \ Allocated : IdlePlaces(b) + HeldPlaces(b) + freed[b] = 0

\* Three builders, one in each place: one idle in a pool, one held by a
\* release in progress, one freed.
C21_Witness ==
    \E b1, b2, b3 \in Allocated :
        /\ IdlePlaces(b1) = 1
        /\ \E t \in Threads : taken[t] = b2 /\ pc[t] # "out"
        /\ freed[b3] = 1

\* The three statics as a configuration.
GlobalConfig == FactoryDefault(INIT_POOL_SIZE, MAX_POOL_SIZE, BUFFER_CAPACITY)

\* C22: new() is available whether or not the global pool has been used, and
\* the factory it creates holds the three statics as they are when it is
\* called with no setter call running beside it; a
\* global setter call changes neither the factory nor a local pool (its queue,
\* its capacity, the buffer capacity it allocates with); a pool is built from
\* the factory's values, whatever the statics hold by then, and keeps them.
C22_FactorySnapshot ==
    [][/\ (~Aborted /\ MainFree) => ENABLED FactoryNewInit(MainThread)
       /\ \A t \in Threads :
            pc[t] \in NewPcs =>
                /\ ENABLED (FactoryNew(t) /\ (pc'[t] \in NewPcs \/ factory' = GlobalConfig))
                /\ ~ENABLED (FactoryNew(t) /\ pc'[t] \notin NewPcs /\ factory' # GlobalConfig)
       /\ factory' # factory => factory' = GlobalConfig /\ GlobalConfig' = GlobalConfig
       /\ GlobalSetterStep => factory' = factory /\ lVars' = lVars /\ bufcap' = bufcap
       /\ \A p \in Pools :
            /\ (lstate[p] = "unbuilt" /\ lstate'[p] = "alive") =>
                  /\ lcap'[p] = factory.max
                  /\ Len(lqueue'[p]) = factory.init
                  /\ lcapacity'[p] = factory.capacity
                  /\ \A i \in 1..factory.init : bufcap'[nextId + i - 1] = factory.capacity
            /\ lstate[p] = "alive" =>
                  /\ lcap'[p] = lcap[p] /\ lcapacity'[p] = lcapacity[p]
                  /\ lqueue'[p] = lqueue[p]]_vars

\* The global pool was first used while the maximum still had its declared
\* value; the maximum was set afterwards and a factory created after that: it
\* holds the value set, a pool built from it has that capacity, and the
\* statics have been set again since and differ from the factory and the pool.
C22_Witness ==
    /\ ginit
    /\ gfirst.max = DEFAULT_MAX_POOL_SIZE
    /\ factory.max # DEFAULT_MAX_POOL_SIZE
    /\ lstate[MainPool] = "alive"
    /\ lcap[MainPool] = factory.max
    /\ lcapacity[MainPool] = factory.capacity
    /\ MAX_POOL_SIZE # factory.max
    /\ BUFFER_CAPACITY # factory.capacity

=============================================================================
